---- MODULE Spec2Model ----
(***************************************************************************)
(* A model of LOGfilter_enhanced.py: the keyword line filter, the          *)
(* highlighter, the archive extractor and the batch run                    *)
(* process_all_log_files with its scratch directory and its two reports.   *)
(*                                                                         *)
(* Text is modelled character by character: a Python str is a sequence of  *)
(* one-character strings.  The element "ESC" stands for the single          *)
(* character chr(27) that starts the ANSI colour codes of class Colors.    *)
(***************************************************************************)
EXTENDS Integers, Sequences, FiniteSets, TLC

VARIABLES
    \* ---- filter_log_file called on one file --------------------------------
    fLines,          \* the physical lines of the file, each with its terminator
    fKeywords,       \* the keyword strings handed to compile_keyword_patterns
    fDone,           \* filter_log_file has returned
    filtered_lines,  \* its return value: <<filename, line_number, content>> tuples
    \* ---- highlight_text called on one line ---------------------------------
    hlText,          \* argument text
    hlWords,         \* argument highlight_words: the dict's items in insertion order
    hlMode,          \* argument html_mode
    hlDone,          \* highlight_text has returned
    hlResult,        \* its return value
    \* ---- one run of process_all_log_files ----------------------------------
    pc,              \* position in process_all_log_files
    folder,          \* the scanned folder: its entries in listing order
    log_files,       \* local log_files: the paths to filter, in discovery order
    zi,              \* number of containers already handed to the extractor
    fi,              \* number of files already filtered
    temp_dir,        \* local temp_dir: "None" or the scratch directory's name
    scratch,         \* the scratch directory on disk: [exists, files, dirs]
    created,         \* number of tempfile.mkdtemp calls that returned
    removed,         \* number of shutil.rmtree calls on the scratch directory
    extracted_logs,  \* per container, the list extract_log_files_from_zip returned
    errors,          \* per container, the number of error lines printed for it
    all_filtered_lines, \* local all_filtered_lines: the aggregate Match sequence
    matchFile,       \* per aggregate Match, the index in log_files of its file
    ownContent,      \* per path of log_files, the content of the file or member it stands for
    seenContent,     \* per filtered file, the content filter_log_file read
    txtReport,       \* the text report file: [exists, total, lines]
    htmlReport,      \* the HTML report file: [exists, total, lines]
    raising          \* an exception is propagating out of the try block

filterVars == <<fLines, fKeywords, fDone, filtered_lines>>
hlVars == <<hlText, hlWords, hlMode, hlDone, hlResult>>
runVars == <<pc, folder, log_files, zi, fi, temp_dir, scratch, created, removed,
             extracted_logs, errors, all_filtered_lines, matchFile, ownContent,
             seenContent,
             txtReport, htmlReport, raising>>
vars == <<filterVars, hlVars, runVars>>

(***************************************************************************)
(* Bounds of the model.                                                    *)
(***************************************************************************)
MaxKeywords == 2     \* keywords in one keyword list
MaxLines == 2        \* lines in one filtered file
MaxPieces == 3       \* pieces a highlighted line is put together from
MaxTerms == 2        \* terms in one highlight_words dict
MaxZips == 2         \* container files in the scanned folder
MaxMembers == 3      \* members of all containers of the folder together

(***************************************************************************)
(* Characters and strings.                                                 *)
(***************************************************************************)
ToLower == [A |-> "a", B |-> "b", C |-> "c", D |-> "d", E |-> "e", F |-> "f",
            G |-> "g", H |-> "h", I |-> "i", J |-> "j", K |-> "k", L |-> "l",
            M |-> "m", N |-> "n", O |-> "o", P |-> "p", Q |-> "q", R |-> "r",
            S |-> "s", T |-> "t", U |-> "u", V |-> "v", W |-> "w", X |-> "x",
            Y |-> "y", Z |-> "z"]

ToUpper == [a |-> "A", b |-> "B", c |-> "C", d |-> "D", e |-> "E", f |-> "F",
            g |-> "G", h |-> "H", i |-> "I", j |-> "J", k |-> "K", l |-> "L",
            m |-> "M", n |-> "N", o |-> "O", p |-> "P", q |-> "Q", r |-> "R",
            s |-> "S", t |-> "T", u |-> "U", v |-> "V", w |-> "W", x |-> "X",
            y |-> "Y", z |-> "Z"]

Digits == {"0", "1", "2", "3", "4", "5", "6", "7", "8", "9"}

\* str.lower() and str.upper() on one character
LowerChar(c) == IF c \in DOMAIN ToLower THEN ToLower[c] ELSE c

UpperChar(c) == IF c \in DOMAIN ToUpper THEN ToUpper[c] ELSE c

lower(s) == [i \in 1..Len(s) |-> LowerChar(s[i])]

upper(s) == [i \in 1..Len(s) |-> UpperChar(s[i])]

\* the characters the regular expression class \w matches
IsWordChar(c) == c \in DOMAIN ToLower \/ c \in DOMAIN ToUpper \/ c \in Digits \/ c = "_"

\* the characters str.strip() removes
IsSpace(c) == c \in {" ", "\t", "\n", "\r"}

\* s.endswith(suffix)
endswith(s, suffix) ==
    /\ Len(suffix) <= Len(s)
    /\ SubSeq(s, Len(s) - Len(suffix) + 1, Len(s)) = suffix

\* os.path.basename(path)
basename(path) ==
    LET slashes == {i \in 1..Len(path) : path[i] = "/"} IN
    IF slashes = {} THEN path
    ELSE SubSeq(path, (CHOOSE i \in slashes : \A j \in slashes : j <= i) + 1, Len(path))

\* os.path.dirname(path)
dirname(path) ==
    LET slashes == {i \in 1..Len(path) : path[i] = "/"} IN
    IF slashes = {} THEN <<>>
    ELSE SubSeq(path, 1, (CHOOSE i \in slashes : \A j \in slashes : j <= i) - 1)

\* sub in s
Contains(s, sub) ==
    \E i \in 1..(Len(s) + 1) :
        /\ i + Len(sub) - 1 <= Len(s)
        /\ SubSeq(s, i, i + Len(sub) - 1) = sub

RECURSIVE Concat(_)
\* "".join(seq), the sequence halved at each step
Concat(seq) ==
    IF seq = <<>> THEN <<>>
    ELSE IF Len(seq) = 1 THEN seq[1]
    ELSE LET h == Len(seq) \div 2 IN
         Concat(SubSeq(seq, 1, h)) \o Concat(SubSeq(seq, h + 1, Len(seq)))

\* the least element of a non-empty set of integers
Least(S) == CHOOSE x \in S : \A y \in S : x <= y

RECURSIVE LStrip(_)
LStrip(s) == IF s # <<>> /\ IsSpace(Head(s)) THEN LStrip(Tail(s)) ELSE s

RECURSIVE RStrip(_)
RStrip(s) ==
    IF s # <<>> /\ IsSpace(s[Len(s)]) THEN RStrip(SubSeq(s, 1, Len(s) - 1)) ELSE s

\* str.strip(): leading and trailing whitespace removed
Strip(s) == LStrip(RStrip(s))

\* the sequences over S of length lo..hi
SeqsBetween(S, lo, hi) == UNION {[1..n -> S] : n \in lo..hi}

(***************************************************************************)
(* The regular expressions the program builds.  A compiled pattern is a    *)
(* sequence of tokens: a literal character, "." (any character but a       *)
(* newline) or the assertion \b.  Every pattern is compiled IGNORECASE.    *)
(***************************************************************************)
\* the characters re.escape puts a backslash before
SpecialChars == {"(", ")", "[", "]", "{", "}", "?", "*", "+", "-", "|", "^", "$",
                 "\\", ".", "&", "~", "#", " ", "\t", "\n", "\r"}

\* a compiler that forgets re.escape: the keyword is used as pattern text as it is
ReEscapeNone(s) == s

\* re.escape(s)
ReEscape(s) ==
    Concat([i \in 1..Len(s) |->
               IF s[i] \in SpecialChars THEN <<"\\", s[i]>> ELSE <<s[i]>>])

RECURSIVE ReParse(_)
\* re.compile on the pattern text: the token sequence
ReParse(p) ==
    IF p = <<>> THEN <<>>
    ELSE IF Head(p) = "\\" /\ Len(p) >= 2
         THEN (IF p[2] = "b" THEN <<[k |-> "wb", c |-> ""]>>
                             ELSE <<[k |-> "lit", c |-> p[2]]>>)
              \o ReParse(Tail(Tail(p)))
         ELSE (IF Head(p) = "." THEN <<[k |-> "any", c |-> ""]>>
                                ELSE <<[k |-> "lit", c |-> Head(p)]>>)
              \o ReParse(Tail(p))

\* whether position i of text (1-based; 0 and Len+1 lie outside) holds a \w character
WordAt(text, i) == i >= 1 /\ i <= Len(text) /\ IsWordChar(text[i])

RECURSIVE MatchEnd(_, _, _, _)
\* the tokens from index t on matched at position i of text: the position after
\* the match, or 0 when they do not match there
MatchEnd(toks, t, text, i) ==
    IF t > Len(toks) THEN i
    ELSE LET tok == toks[t] IN
         CASE tok.k = "wb" ->
                IF WordAt(text, i - 1) # WordAt(text, i)
                THEN MatchEnd(toks, t + 1, text, i) ELSE 0
           [] tok.k = "any" ->
                IF i <= Len(text) /\ text[i] # "\n"
                THEN MatchEnd(toks, t + 1, text, i + 1) ELSE 0
           [] OTHER ->
                IF i <= Len(text) /\ LowerChar(text[i]) = LowerChar(tok.c)
                THEN MatchEnd(toks, t + 1, text, i + 1) ELSE 0

\* pattern.search(text) is not None
Search(toks, text) == \E i \in 1..(Len(text) + 1) : MatchEnd(toks, 1, text, i) # 0

RECURSIVE SubFrom(_, _, _, _, _)
\* pattern.sub(open + "\g<0>" + close, text), from position i on: the matches are
\* taken left to right and do not overlap.  The program's patterns never match
\* the empty string (no term is empty), so a match always consumes characters.
SubFrom(toks, open, close, text, i) ==
    LET starts == {j \in i..Len(text) : MatchEnd(toks, 1, text, j) > j} IN
    IF starts = {} THEN SubSeq(text, i, Len(text))
    ELSE LET s == Least(starts)
             e == MatchEnd(toks, 1, text, s)
         IN  SubSeq(text, i, s - 1) \o open \o SubSeq(text, s, e - 1) \o close
             \o SubFrom(toks, open, close, text, e)

Sub(toks, open, close, text) == SubFrom(toks, open, close, text, 1)

\* str.replace(ch, by) for a one-character ch
Replace(s, ch, by) == Concat([i \in 1..Len(s) |-> IF s[i] = ch THEN by ELSE <<s[i]>>])

(***************************************************************************)
(* Pattern Compiler and Line Filter.                                       *)
(***************************************************************************)
\* compile_keyword_patterns(keywords)
compile_keyword_patterns(keywords) ==
    [i \in 1..Len(keywords) |-> ReParse(ReEscape(keywords[i]))]

\* iterating a text file: the text cut after every newline
ReadLines(text) ==
    LET newlines == {i \in 1..Len(text) : text[i] = "\n"}
        starts == {i \in 1..Len(text) : i = 1 \/ (i - 1) \in newlines}
        start(k) == CHOOSE b \in starts : Cardinality({c \in starts : c < b}) = k - 1
        end(b) == IF \E n \in newlines : n >= b
                  THEN Least({n \in newlines : n >= b}) ELSE Len(text)
    IN  [k \in 1..Cardinality(starts) |-> SubSeq(text, start(k), end(start(k)))]

\* the content a selected line is recorded with: line.strip()
MatchContent(line) == Strip(line)

RECURSIVE FilterFrom(_, _, _, _)
\* the loop of filter_log_file over enumerate(file, 1), from line_number on
FilterFrom(filename, lines, keyword_patterns, line_number) ==
    IF line_number > Len(lines) THEN <<>>
    ELSE (IF \E p \in 1..Len(keyword_patterns) :
                 Search(keyword_patterns[p], lines[line_number])
          THEN <<<<filename, line_number, MatchContent(lines[line_number])>>>>
          ELSE <<>>)
         \o FilterFrom(filename, lines, keyword_patterns, line_number + 1)

\* filter_log_file on a readable file holding text, whose base name is filename
filter_log_file(filename, text, keyword_patterns) ==
    FilterFrom(filename, ReadLines(text), keyword_patterns, 1)

(***************************************************************************)
(* The filter on its own: one call of filter_log_file on one file.         *)
(***************************************************************************)
Keywords == {<<"a", ".", "b">>, <<"A", "B">>, <<"b", " ">>, <<>>}

LineBodies == {<<"a", "x", "b">>, <<"A", ".", "b">>, <<" ", "a", "b", " ">>, <<>>}

\* a line of a file: a body and its newline; the last line may lack the newline
FullLines == {b \o <<"\n">> : b \in LineBodies}

LastLines == FullLines \cup (LineBodies \ {<<>>})

FileLineSeqs ==
    {ls \in SeqsBetween(LastLines, 0, MaxLines) :
        \A i \in 1..(Len(ls) - 1) : ls[i] \in FullLines}

FilterPath == <<"d", "/", "f", ".", "L", "O", "G">>

IdleFilter ==
    /\ fLines = <<>>
    /\ fKeywords = <<>>
    /\ fDone = TRUE
    /\ filtered_lines = <<>>

IdleHL ==
    /\ hlText = <<>>
    /\ hlWords = <<>>
    /\ hlMode = FALSE
    /\ hlDone = TRUE
    /\ hlResult = <<>>

IdleRun ==
    /\ pc = "idle"
    /\ folder = <<>>
    /\ log_files = <<>>
    /\ zi = 0
    /\ fi = 0
    /\ temp_dir = "None"
    /\ scratch = [exists |-> FALSE, files |-> <<>>, dirs |-> {}]
    /\ created = 0
    /\ removed = 0
    /\ extracted_logs = <<>>
    /\ errors = <<>>
    /\ all_filtered_lines = <<>>
    /\ matchFile = <<>>
    /\ ownContent = <<>>
    /\ seenContent = <<>>
    /\ txtReport = [exists |-> FALSE, total |-> 0, lines |-> <<>>]
    /\ htmlReport = [exists |-> FALSE, total |-> 0, lines |-> <<>>]
    /\ raising = FALSE

InitFilter ==
    /\ fLines \in FileLineSeqs
    /\ fKeywords \in SeqsBetween(Keywords, 0, MaxKeywords)
    /\ fDone = FALSE
    /\ filtered_lines = <<>>
    /\ IdleHL
    /\ IdleRun

\* filter_log_file(file_path, compile_keyword_patterns(keywords))
FilterCall ==
    /\ ~fDone
    /\ filtered_lines' = filter_log_file(basename(FilterPath), Concat(fLines),
                                         compile_keyword_patterns(fKeywords))
    /\ fDone' = TRUE
    /\ UNCHANGED <<fLines, fKeywords, hlVars, runVars>>

NextFilter == FilterCall

SpecFilter == InitFilter /\ [][NextFilter]_vars

\* keyword kw occurs in line as a literal substring when letter case is ignored
OccursIgnoringCase(kw, line) == Contains(lower(line), lower(kw))

SelectedLineNumbers == {filtered_lines[m][2] : m \in 1..Len(filtered_lines)}

\* C1: filter_log_file records a Match for a line if and only if some keyword
\* occurs in the line as a literal substring, letter case ignored; regex
\* metacharacters of a keyword are literal, and an empty keyword list selects
\* no line.
C1_SelectsIffKeywordOccurs ==
    fDone =>
        /\ \A k \in 1..Len(fLines) :
               (k \in SelectedLineNumbers)
               <=> (\E j \in 1..Len(fKeywords) : OccursIgnoringCase(fKeywords[j], fLines[k]))
        /\ (fKeywords = <<>> => filtered_lines = <<>>)

\* keyword "a.b" has left line "axb" out and has selected line "A.b"
C1_Witness ==
    /\ fDone
    /\ fKeywords = << <<"a", ".", "b">> >>
    /\ fLines = << <<"a", "x", "b", "\n">>, <<"A", ".", "b", "\n">> >>
    /\ SelectedLineNumbers = {2}

\* C10: every Match is (base name, 1-based physical line number, the line with
\* only its trailing newline and trailing whitespace removed), leading
\* whitespace kept.
C10_ContentKeepsLeadingWhitespace ==
    fDone =>
        \A m \in 1..Len(filtered_lines) :
            LET k == filtered_lines[m][2] IN
            /\ k \in 1..Len(fLines)
            /\ filtered_lines[m] = <<basename(FilterPath), k, RStrip(fLines[k])>>

(***************************************************************************)
(* Highlighter.                                                            *)
(***************************************************************************)
\* class Colors
GREEN == <<"ESC", "[", "9", "2", "m">>

RED == <<"ESC", "[", "9", "1", "m">>

BLUE == <<"ESC", "[", "9", "4", "m">>

YELLOW == <<"ESC", "[", "9", "3", "m">>

RESET == <<"ESC", "[", "0", "m">>

s_match == <<"m", "a", "t", "c", "h">>

s_mismatch == <<"m", "i", "s", "m", "a", "t", "c", "h">>

s_configuration == <<"c", "o", "n", "f", "i", "g", "u", "r", "a", "t", "i", "o", "n">>

s_highlight == <<"h", "i", "g", "h", "l", "i", "g", "h", "t">>

\* the escaping in the wrong order: "&" last, so the entities just put in are
\* escaped again
HtmlEscapeAmpLast(text) ==
    Replace(Replace(Replace(text, "<", <<"&", "l", "t", ";">>),
                    ">", <<"&", "g", "t", ";">>),
            "&", <<"&", "a", "m", "p", ";">>)

\* result.replace('&', '&amp;').replace('<', '&lt;').replace('>', '&gt;')
HtmlEscape(text) ==
    Replace(Replace(Replace(text, "&", <<"&", "a", "m", "p", ";">>),
                    "<", <<"&", "l", "t", ";">>),
            ">", <<"&", "g", "t", ";">>)

RECURSIVE InsertByLen(_, _)
\* item put behind every item of sorted whose word is at least as long
InsertByLen(sorted, item) ==
    IF sorted = <<>> THEN <<item>>
    ELSE IF Len(Head(sorted).word) >= Len(item.word)
         THEN <<Head(sorted)>> \o InsertByLen(Tail(sorted), item)
         ELSE <<item>> \o sorted

RECURSIVE SortFrom(_, _, _)
SortFrom(items, i, sorted) ==
    IF i > Len(items) THEN sorted
    ELSE SortFrom(items, i + 1, InsertByLen(sorted, items[i]))

\* sorted(highlight_words.items(), key=lambda x: len(x[0]), reverse=True):
\* longest word first, words of one length in the dict's order
SortedItems(items) == SortFrom(items, 1, <<>>)

\* a matcher without the word boundaries
TermPatternNoBoundary(word) == ReParse(ReEscape(word))

\* the pattern compiled for one term
TermPattern(word) ==
    IF lower(word) \in {s_match, s_mismatch} /\ ~(\E i \in 1..Len(word) : word[i] = " ")
    THEN ReParse(<<"\\", "b">> \o ReEscape(word) \o <<"\\", "b">>)
    ELSE ReParse(ReEscape(word))

\* the CSS class chosen for one term
CssClass(word) ==
    IF lower(word) = s_match /\ ~(\E i \in 1..Len(word) : word[i] = " ") THEN s_match
    ELSE IF lower(word) = s_mismatch THEN s_mismatch
    ELSE IF Contains(lower(word), s_configuration) THEN s_configuration
    ELSE s_highlight

\* what is put before and behind every match of one term
OpenTag(word) ==
    <<"<", "s", "p", "a", "n", " ", "c", "l", "a", "s", "s", "=", "\"">>
    \o CssClass(word) \o <<"\"", ">">>

CloseTag == <<"<", "/", "s", "p", "a", "n", ">">>

Opening(item, html_mode) == IF html_mode THEN OpenTag(item.word) ELSE item.color

Closing(html_mode) == IF html_mode THEN CloseTag ELSE RESET

RECURSIVE ApplyTerms(_, _, _, _)
\* the loop over sorted_items, from item t on
ApplyTerms(result, sorted_items, t, html_mode) ==
    IF t > Len(sorted_items) THEN result
    ELSE ApplyTerms(Sub(TermPattern(sorted_items[t].word),
                        Opening(sorted_items[t], html_mode), Closing(html_mode), result),
                    sorted_items, t + 1, html_mode)

\* highlight_text(text, highlight_words, html_mode)
highlight_text(text, highlight_words, html_mode) ==
    IF highlight_words = <<>> THEN text
    ELSE ApplyTerms(IF html_mode THEN HtmlEscape(text) ELSE text,
                    SortedItems(highlight_words), 1, html_mode)

(***************************************************************************)
(* The highlighter on its own: one call of highlight_text on one line.     *)
(***************************************************************************)
Pieces == {s_mismatch, s_match, <<" ">>, <<"<">>, <<"a">>}

Terms == {s_match, s_mismatch, <<"a">>, <<"l", "t">>}

\* the colour a term is configured with
ColorOf(word) ==
    IF word = s_mismatch THEN RED
    ELSE IF word = s_match THEN GREEN
    ELSE IF word = <<"a">> THEN BLUE
    ELSE YELLOW

HighlightDicts ==
    {[i \in 1..Len(ws) |-> [word |-> ws[i], color |-> ColorOf(ws[i])]] :
        ws \in {w \in SeqsBetween(Terms, 0, MaxTerms) :
                   \A i, j \in 1..Len(w) : i # j => w[i] # w[j]}}

InitHL ==
    /\ hlText \in {Concat(ps) : ps \in SeqsBetween(Pieces, 1, MaxPieces)}
    /\ hlWords \in HighlightDicts
    /\ hlMode \in BOOLEAN
    /\ hlDone = FALSE
    /\ hlResult = <<>>
    /\ IdleFilter
    /\ IdleRun

HighlightCall ==
    /\ ~hlDone
    /\ hlResult' = highlight_text(hlText, hlWords, hlMode)
    /\ hlDone' = TRUE
    /\ UNCHANGED <<hlText, hlWords, hlMode, filterVars, runVars>>

NextHL == HighlightCall

SpecHL == InitHL /\ [][NextHL]_vars

\* word occupies text from position i on, letter case ignored
OccursAt(text, i, word) ==
    /\ i + Len(word) - 1 <= Len(text)
    /\ lower(SubSeq(text, i, i + Len(word) - 1)) = lower(word)

\* ... as a whole word: no word character right before or right behind it
WholeWordAt(text, i, word) ==
    /\ OccursAt(text, i, word)
    /\ ~WordAt(text, i - 1)
    /\ ~WordAt(text, i + Len(word))

\* one character as the output shows it
Shown(c, html_mode) ==
    IF ~html_mode THEN <<c>>
    ELSE IF c = "&" THEN <<"&", "a", "m", "p", ";">>
    ELSE IF c = "<" THEN <<"&", "l", "t", ";">>
    ELSE IF c = ">" THEN <<"&", "g", "t", ";">>
    ELSE <<c>>

ShownText(text, html_mode) ==
    Concat([i \in 1..Len(text) |-> Shown(text[i], html_mode)])

MatchItem == [word |-> s_match, color |-> GREEN]

MismatchItem == [word |-> s_mismatch, color |-> RED]

RECURSIVE WholeUnits(_, _, _)
\* text read once from position i on: every whole word "mismatch" wrapped as one
\* unit in the mismatch style, every whole word "match" in the match style,
\* everything else as the output shows it
WholeUnits(text, i, html_mode) ==
    LET units == {j \in i..Len(text) :
                     WholeWordAt(text, j, s_mismatch) \/ WholeWordAt(text, j, s_match)}
    IN  IF units = {} THEN ShownText(SubSeq(text, i, Len(text)), html_mode)
        ELSE LET u == Least(units)
                 item == IF WholeWordAt(text, u, s_mismatch) THEN MismatchItem
                                                             ELSE MatchItem
                 e == u + Len(item.word)
             IN  ShownText(SubSeq(text, i, u - 1), html_mode)
                 \o Opening(item, html_mode) \o SubSeq(text, u, e - 1)
                 \o Closing(html_mode) \o WholeUnits(text, e, html_mode)

HasWholeWord(text, word) == \E i \in 1..Len(text) : WholeWordAt(text, i, word)

IsMatchMismatchDict ==
    hlWords \in {<<MatchItem, MismatchItem>>, <<MismatchItem, MatchItem>>}

\* C6: with {"match": GREEN, "mismatch": RED} and a line holding "mismatch" as
\* a whole word, in both modes every such occurrence is wrapped exactly once as
\* a whole unit in the mismatch style, and the "match" inside it is never
\* wrapped on its own.
C6_MismatchWrappedAsWholeUnit ==
    (hlDone /\ IsMatchMismatchDict /\ HasWholeWord(hlText, s_mismatch))
        => hlResult = WholeUnits(hlText, 1, hlMode)

\* "match mismatch" has been highlighted, in structured mode
C6_Witness ==
    /\ hlDone
    /\ hlWords = <<MatchItem, MismatchItem>>
    /\ hlText = s_match \o <<" ">> \o s_mismatch
    /\ hlMode
    /\ hlResult = OpenTag(s_match) \o s_match \o CloseTag \o <<" ">>
                  \o OpenTag(s_mismatch) \o s_mismatch \o CloseTag

IsSingleAbsentTerm ==
    /\ Len(hlWords) = 1
    /\ ~(\E i \in 1..Len(hlText) : OccursAt(hlText, i, hlWords[1].word))

\* C7, as the spec states it: a single term T and a line with no occurrence of T
\* come back unchanged, character for character, in plain and in structured mode.
C7_AbsentTermLineUnchanged ==
    (hlDone /\ IsSingleAbsentTerm) => hlResult = hlText

\* C7, amended: in plain mode the line comes back unchanged; in structured mode
\* it comes back with "&", "<", ">" written as entities and nothing else changed,
\* provided T has no occurrence in that escaped text either.
C7_AbsentTermLineOnlyEscaped ==
    (hlDone /\ IsSingleAbsentTerm) =>
        /\ (~hlMode => hlResult = hlText)
        /\ (hlMode =>
               LET shown == ShownText(hlText, TRUE) IN
               (~(\E i \in 1..Len(shown) : OccursAt(shown, i, hlWords[1].word)))
                   => hlResult = shown)

\* the line "< <" holds no "a" and has come back escaped in structured mode
C7_Witness ==
    /\ hlDone
    /\ hlMode
    /\ Len(hlWords) = 1
    /\ hlWords[1].word = <<"a">>
    /\ hlText = <<"<", " ", "<">>
    /\ hlResult = <<"&", "l", "t", ";", " ", "&", "l", "t", ";">>

RECURSIVE MarkupFrom(_, _, _, _, _, _)
\* for text whose inserted-markup positions are mask: the mask of the text Sub
\* returns for toks, with an opening of openLen and a closing of closeLen
\* characters around every match, from position i on
MarkupFrom(toks, openLen, closeLen, text, mask, i) ==
    LET starts == {j \in i..Len(text) : MatchEnd(toks, 1, text, j) > j} IN
    IF starts = {} THEN SubSeq(mask, i, Len(mask))
    ELSE LET s == Least(starts)
             e == MatchEnd(toks, 1, text, s)
         IN  SubSeq(mask, i, s - 1) \o [j \in 1..openLen |-> TRUE]
             \o SubSeq(mask, s, e - 1) \o [j \in 1..closeLen |-> TRUE]
             \o MarkupFrom(toks, openLen, closeLen, text, mask, e)

RECURSIVE TouchesMarkup(_, _, _, _)
\* some match of toks in text, taken as Sub takes them from position i on,
\* covers a position of inserted markup
TouchesMarkup(toks, text, mask, i) ==
    LET starts == {j \in i..Len(text) : MatchEnd(toks, 1, text, j) > j} IN
    IF starts = {} THEN FALSE
    ELSE LET s == Least(starts)
             e == MatchEnd(toks, 1, text, s)
         IN  (\E j \in s..(e - 1) : mask[j]) \/ TouchesMarkup(toks, text, mask, e)

RECURSIVE LaterTermTouchesMarkup(_, _, _, _)
\* structured mode, from item t on: some term matches inside markup put in for
\* an earlier term
LaterTermTouchesMarkup(text, mask, sorted_items, t) ==
    IF t > Len(sorted_items) THEN FALSE
    ELSE LET toks == TermPattern(sorted_items[t].word)
             open == OpenTag(sorted_items[t].word)
         IN  \/ TouchesMarkup(toks, text, mask, 1)
             \/ LaterTermTouchesMarkup(
                    Sub(toks, open, CloseTag, text),
                    MarkupFrom(toks, Len(open), Len(CloseTag), text, mask, 1),
                    sorted_items, t + 1)

\* C8: in structured mode with two or more terms, the substitution for a later
\* term never matches text inside a span wrapper inserted for an earlier term.
C8_MarkupNeverRematched ==
    (hlDone /\ hlMode /\ Len(hlWords) >= 2) =>
        LET shown == HtmlEscape(hlText) IN
        ~LaterTermTouchesMarkup(shown, [j \in 1..Len(shown) |-> FALSE],
                                SortedItems(hlWords), 1)

(***************************************************************************)
(* Paths and the scratch directory.  A path below the scratch directory is *)
(* kept relative to it; scratch.files maps the path of every regular file  *)
(* to its content and scratch.dirs holds the subdirectories.  Container    *)
(* members lie at most one directory deep.                                 *)
(***************************************************************************)
\* os.path.join(a, b)
join(a, b) == a \o <<"/">> \o b

\* os.path.splitext(path): <<root, ext>>, cut at the last dot of the base name
\* unless that name has only leading dots
splitext(path) ==
    LET first == Len(path) - Len(basename(path)) + 1
        dots == {i \in first..Len(path) :
                    /\ path[i] = "."
                    /\ \E j \in first..(i - 1) : path[j] # "."}
    IN  IF dots = {} THEN <<path, <<>>>>
        ELSE LET d == CHOOSE i \in dots : \A j \in dots : j <= i IN
             <<SubSeq(path, 1, d - 1), SubSeq(path, d, Len(path))>>

\* os.path.exists(os.path.join(temp_dir, rel))
Exists(fs, rel) == rel \in DOMAIN fs.files \/ rel \in fs.dirs

WriteFile(fs, rel, content) ==
    [fs EXCEPT !.files = (rel :> content) @@ fs.files]

RemoveFile(fs, rel) ==
    [fs EXCEPT !.files = [q \in (DOMAIN fs.files) \ {rel} |-> fs.files[q]]]

\* zip_ref.extract(member, temp_dir): the parent directory is made unless
\* something of that name exists, then the target is opened for writing, which
\* fails below a regular file and on a directory; an existing file is overwritten
ZipExtract(fs, member) ==
    LET parent == dirname(member.name) IN
    IF parent # <<>> /\ parent \in DOMAIN fs.files THEN [ok |-> FALSE, fs |-> fs]
    ELSE IF member.name \in fs.dirs THEN [ok |-> FALSE, fs |-> fs]
    ELSE [ok |-> TRUE,
          fs |-> WriteFile([fs EXCEPT !.dirs = IF parent = <<>> THEN @ ELSE @ \cup {parent}],
                           member.name, member.content)]

\* shutil.move(src, dst) for a regular file src: into dst when dst is a
\* directory (an error when the name is taken there), else os.rename, which
\* replaces an existing file
Move(fs, src, dst) ==
    IF dst \in fs.dirs
    THEN LET real_dst == join(dst, basename(src)) IN
         IF Exists(fs, real_dst) THEN [ok |-> FALSE, fs |-> fs]
         ELSE [ok |-> TRUE, fs |-> WriteFile(RemoveFile(fs, src), real_dst, fs.files[src])]
    ELSE [ok |-> TRUE, fs |-> WriteFile(RemoveFile(fs, src), dst, fs.files[src])]

(***************************************************************************)
(* Archive Extractor.                                                      *)
(***************************************************************************)
s_LOG == <<".", "L", "O", "G">>

s_ZIP == <<".", "Z", "I", "P">>

TempDir == <<"t", "m", "p">>

FolderPath == <<"i", "n">>

\* [f for f in file_list if f.upper().endswith('.LOG')]
LogMembers(members) == SelectSeq(members, LAMBDA m : endswith(upper(m.name), s_LOG))

\* the name chosen to avoid a conflict (lines 106-108)
ConflictName(log_file, zip_name) ==
    splitext(basename(log_file))[1] \o <<"_">> \o zip_name \o splitext(log_file)[2]

RECURSIVE ExtractLoop(_, _, _, _, _, _)
\* the loop over log_files from member k on: fs is the scratch directory,
\* paths the list extracted_files and own the content of the member each path
\* was extracted for.  An exception ends the loop; the handler prints one error
\* line and the function returns the paths collected so far.
ExtractLoop(zip_name, log_members, k, fs, paths, own) ==
    IF k > Len(log_members)
    THEN [files |-> paths, own |-> own, fs |-> fs, errs |-> 0, raised |-> FALSE]
    ELSE LET member == log_members[k]
             log_file == member.name
             x == ZipExtract(fs, member)
             new_path == IF Exists(x.fs, basename(log_file))
                         THEN ConflictName(log_file, zip_name)
                         ELSE basename(log_file)
             mv == Move(x.fs, log_file, new_path)
             failed(f) == [files |-> paths, own |-> own, fs |-> f, errs |-> 1,
                           raised |-> FALSE]
         IN  IF ~x.ok THEN failed(x.fs)
             ELSE IF dirname(log_file) = <<>>
                  THEN ExtractLoop(zip_name, log_members, k + 1, x.fs,
                                   Append(paths, join(TempDir, log_file)),
                                   Append(own, member.content))
             ELSE IF ~mv.ok THEN failed(mv.fs)
             ELSE ExtractLoop(zip_name, log_members, k + 1, mv.fs,
                              Append(paths, join(TempDir, new_path)),
                              Append(own, member.content))

\* a container that is not a ZIP file, handled as if BadZipFile were not caught
BadZipPropagates(fs) ==
    [files |-> <<>>, own |-> <<>>, fs |-> fs, errs |-> 0, raised |-> TRUE]

\* zipfile.BadZipFile raised by ZipFile(zip_path) and caught: one error line,
\* the empty list returned
BadZipCaught(fs) ==
    [files |-> <<>>, own |-> <<>>, fs |-> fs, errs |-> 1, raised |-> FALSE]

\* extract_log_files_from_zip(zip_path, temp_dir) with the scratch directory fs:
\* the list returned, the scratch directory afterwards, the error lines printed
\* and whether an exception leaves the function
extract_log_files_from_zip(zip, fs) ==
    IF ~zip.valid THEN BadZipCaught(fs)
    ELSE ExtractLoop(zip.name, LogMembers(zip.members), 1, fs, <<>>, <<>>)

(***************************************************************************)
(* Report Writers.                                                         *)
(***************************************************************************)
DigitChars == <<"0", "1", "2", "3", "4", "5", "6", "7", "8", "9">>

RECURSIVE Str(_)
\* str(n) for n >= 0
Str(n) ==
    IF n < 10 THEN <<DigitChars[n + 1]>>
    ELSE Str(n \div 10) \o <<DigitChars[(n % 10) + 1]>>

\* "{filename} - Line {line_number}:"
LineLabel(filename, line_number) ==
    filename \o <<" ", "-", " ", "L", "i", "n", "e", " ">> \o Str(line_number) \o <<":">>

\* save_results_as_text(filtered_lines, output_file): the file written, as the
\* total of its header line and the lines that follow the separator
save_results_as_text(lines) ==
    [exists |-> TRUE,
     total |-> Len(lines),
     lines |-> [i \in 1..Len(lines) |->
                   LineLabel(lines[i][1], lines[i][2]) \o <<" ">> \o lines[i][3]
                   \o <<"\n">>]]

FileInfoOpen ==
    <<"<", "s", "p", "a", "n", " ", "c", "l", "a", "s", "s", "=", "\"",
      "f", "i", "l", "e", "-", "i", "n", "f", "o", "\"", ">">>

\* save_results_as_html(filtered_lines, output_file, highlight_words): the file
\* written, as the total of its summary and the middle line of every result block
save_results_as_html(lines, highlight_words) ==
    [exists |-> TRUE,
     total |-> Len(lines),
     lines |-> [i \in 1..Len(lines) |->
                   FileInfoOpen \o LineLabel(lines[i][1], lines[i][2])
                   \o CloseTag \o <<" ">>
                   \o highlight_text(lines[i][3], highlight_words, TRUE) \o <<"\n">>]]

(***************************************************************************)
(* One run of process_all_log_files(folder_path, keywords, output_txt,     *)
(* output_html, highlight_words) with process_zips left at True.           *)
(***************************************************************************)
\* the text of the files the model reads
ContentText ==
    [A |-> <<"e", "\n", "n", "\n", "E", "\n">>,
     B |-> <<"n", "\n", " ", "e", " ", "\n">>,
     C |-> <<"n", "\n">>]

MemberContents == <<"B", "A", "C">>

RunKeywords == << <<"e">> >>

RunHighlight == <<[word |-> <<"e">>, color |-> RED]>>

MemberNames ==
    {<<"x", ".", "L", "O", "G">>,
     <<"a", "/", "x", ".", "L", "O", "G">>,
     <<"b", "/", "x", ".", "L", "O", "G">>,
     <<"x", ".", "L", "O", "G", "/", "x", ".", "L", "O", "G">>,
     <<"r", ".", "t", "x", "t">>}

PlainEntry(name, content) ==
    [name |-> name, content |-> content, valid |-> FALSE, members |-> <<>>]

\* the files of the folder that are no containers
PlainFiles ==
    <<PlainEntry(<<"p", ".", "L", "O", "G">>, "A"),
      PlainEntry(<<"q", ".", "l", "o", "g">>, "C")>>

OtherFile == PlainEntry(<<"n", ".", "t", "x", "t">>, "C")

\* the name of the i-th container of the folder
ZipName(i) ==
    <<"z">> \o Str(i) \o (IF i % 2 = 0 THEN s_ZIP ELSE lower(s_ZIP))

\* the sequences over S with no element twice, of length up to n
InjSeqs(S, n) ==
    {q \in SeqsBetween(S, 0, n) : \A i, j \in 1..Len(q) : i < j => q[i] # q[j]}

RECURSIVE ContainerShapes(_, _)
\* the sequences of nz containers with at most budget members together: each
\* container is either no ZIP file at all or a ZIP file with its member names
ContainerShapes(nz, budget) ==
    IF nz = 0 THEN {<<>>}
    ELSE UNION {{<<sh>> \o rest : rest \in ContainerShapes(nz - 1, budget - Len(sh.names))}
                : sh \in {[valid |-> FALSE, names |-> <<>>]}
                         \cup {[valid |-> TRUE, names |-> q] : q \in InjSeqs(MemberNames, budget)}}

RECURSIVE MembersBefore(_, _)
\* the number of members of the containers before the i-th
MembersBefore(shapes, i) ==
    IF i <= 1 THEN 0 ELSE MembersBefore(shapes, i - 1) + Len(shapes[i - 1].names)

\* the folder with or without the plain log files, one file that is neither log
\* nor container, and the containers of shapes
FolderOf(plain, shapes) ==
    (IF plain THEN PlainFiles ELSE <<>>) \o <<OtherFile>>
    \o [i \in 1..Len(shapes) |->
           [name |-> ZipName(i), content |-> "C", valid |-> shapes[i].valid,
            members |->
                [k \in 1..Len(shapes[i].names) |->
                    [name |-> shapes[i].names[k],
                     content |-> MemberContents[
                         ((MembersBefore(shapes, i) + k - 1) % Len(MemberContents)) + 1]]]]]

\* the folders a run is started on
Folders(maxZips, maxMembers) ==
    {FolderOf(plain, shapes) :
        plain \in BOOLEAN,
        shapes \in UNION {ContainerShapes(n, maxMembers) : n \in 0..maxZips}}

\* the entries the second listing keeps: f.upper().endswith('.ZIP')
ZipFiles == SelectSeq(folder, LAMBDA f : endswith(upper(f.name), s_ZIP))

\* the entries the first listing keeps: f.upper().endswith('.LOG')
PlainLogs == SelectSeq(folder, LAMBDA f : endswith(upper(f.name), s_LOG))

NoScratch == [exists |-> FALSE, files |-> <<>>, dirs |-> {}]

NoReport == [exists |-> FALSE, total |-> 0, lines |-> <<>>]

Init ==
    /\ folder \in Folders(MaxZips, MaxMembers)
    /\ pc = "start"
    /\ log_files = <<>>
    /\ zi = 0
    /\ fi = 0
    /\ temp_dir = "None"
    /\ scratch = NoScratch
    /\ created = 0
    /\ removed = 0
    /\ extracted_logs = <<>>
    /\ errors = <<>>
    /\ all_filtered_lines = <<>>
    /\ matchFile = <<>>
    /\ ownContent = <<>>
    /\ seenContent = <<>>
    /\ txtReport = NoReport
    /\ htmlReport = NoReport
    /\ raising = FALSE
    /\ IdleFilter
    /\ IdleHL

\* lines 139-157: the two listings; nothing to do ends the run
Discover ==
    /\ pc = "start"
    /\ log_files' = [i \in 1..Len(PlainLogs) |-> join(FolderPath, PlainLogs[i].name)]
    /\ ownContent' = [i \in 1..Len(PlainLogs) |-> PlainLogs[i].content]
    /\ pc' = IF PlainLogs = <<>> /\ ZipFiles = <<>> THEN "done" ELSE "try"
    /\ UNCHANGED <<folder, zi, fi, temp_dir, scratch, created, removed, extracted_logs,
                   errors, all_filtered_lines, matchFile, seenContent, txtReport,
                   htmlReport, raising, filterVars, hlVars>>

\* lines 161-165: the try block is entered; tempfile.mkdtemp() if zip_files
EnterTry ==
    /\ pc = "try"
    /\ IF ZipFiles # <<>>
       THEN /\ temp_dir' = "tmp"
            /\ scratch' = [exists |-> TRUE, files |-> <<>>, dirs |-> {}]
            /\ created' = created + 1
            /\ pc' = "zips"
       ELSE /\ pc' = "files"
            /\ UNCHANGED <<temp_dir, scratch, created>>
    /\ UNCHANGED <<folder, log_files, zi, fi, removed, extracted_logs, errors,
                   all_filtered_lines, matchFile, ownContent, seenContent, txtReport,
                   htmlReport, raising, filterVars, hlVars>>

\* lines 168-173: one container handed to the extractor
ExtractZip ==
    /\ pc = "zips"
    /\ LET r == extract_log_files_from_zip(ZipFiles[zi + 1], scratch) IN
       /\ scratch' = r.fs
       /\ errors' = Append(errors, r.errs)
       /\ zi' = zi + 1
       /\ IF r.raised
          THEN /\ raising' = TRUE
               /\ pc' = "finally"
               /\ UNCHANGED <<log_files, ownContent, extracted_logs>>
          ELSE /\ extracted_logs' = Append(extracted_logs, r.files)
               /\ log_files' = log_files \o r.files
               /\ ownContent' = ownContent \o r.own
               /\ pc' = IF zi + 1 < Len(ZipFiles) THEN "zips"
                        ELSE IF log_files' = <<>> THEN "finally" ELSE "files"
               /\ UNCHANGED raising
    /\ UNCHANGED <<folder, fi, temp_dir, created, removed, all_filtered_lines, matchFile,
                   seenContent, txtReport, htmlReport, filterVars, hlVars>>

\* open(file_path) in filter_log_file: the content read, or the failure the
\* function answers with an empty list
ReadPath(path) ==
    IF dirname(path) = TempDir
    THEN IF scratch.exists /\ basename(path) \in DOMAIN scratch.files
         THEN [ok |-> TRUE, content |-> scratch.files[basename(path)]]
         ELSE [ok |-> FALSE, content |-> "unreadable"]
    ELSE LET at == {i \in 1..Len(folder) : folder[i].name = basename(path)} IN
         IF at = {} THEN [ok |-> FALSE, content |-> "unreadable"]
         ELSE [ok |-> TRUE, content |-> folder[CHOOSE i \in at : TRUE].content]

\* all_filtered_lines with the lines of a later file put first
AggregateInFront(all, lines) == lines \o all

\* all_filtered_lines.extend(filtered_lines)
Aggregate(all, lines) == all \o lines

\* lines 176-187: one file filtered
FilterFile ==
    /\ pc = "files"
    /\ LET log_file_path == log_files[fi + 1]
           rd == ReadPath(log_file_path)
           lines == IF rd.ok
                    THEN filter_log_file(basename(log_file_path), ContentText[rd.content],
                                         compile_keyword_patterns(RunKeywords))
                    ELSE <<>>
       IN  /\ all_filtered_lines' = Aggregate(all_filtered_lines, lines)
           /\ matchFile' = matchFile \o [i \in 1..Len(lines) |-> fi + 1]
           /\ seenContent' = Append(seenContent, rd.content)
    /\ fi' = fi + 1
    /\ pc' = IF fi + 1 < Len(log_files) THEN "files" ELSE "finally"
    /\ UNCHANGED <<folder, log_files, zi, temp_dir, scratch, created, removed,
                   extracted_logs, errors, ownContent, txtReport, htmlReport, raising,
                   filterVars, hlVars>>

\* an exception no handler inside the try block catches (a KeyboardInterrupt,
\* say) is raised there
Interrupt ==
    /\ pc \in {"try", "zips", "files"}
    /\ raising' = TRUE
    /\ pc' = "finally"
    /\ UNCHANGED <<folder, log_files, zi, fi, temp_dir, scratch, created, removed,
                   extracted_logs, errors, all_filtered_lines, matchFile, ownContent,
                   seenContent, txtReport, htmlReport, filterVars, hlVars>>

\* a clean-up that is skipped while an exception propagates
ShouldRemoveOnSuccess == temp_dir # "None" /\ scratch.exists /\ ~raising

\* line 191: temp_dir and os.path.exists(temp_dir)
ShouldRemove == temp_dir # "None" /\ scratch.exists

\* lines 189-193: the finally clause, then the exception goes on or the run does
Cleanup ==
    /\ pc = "finally"
    /\ IF ShouldRemove
       THEN /\ scratch' = NoScratch
            /\ removed' = removed + 1
       ELSE UNCHANGED <<scratch, removed>>
    /\ pc' = IF raising THEN "aborted" ELSE "save"
    /\ UNCHANGED <<folder, log_files, zi, fi, temp_dir, created, extracted_logs, errors,
                   all_filtered_lines, matchFile, ownContent, seenContent, txtReport,
                   htmlReport, raising, filterVars, hlVars>>

\* lines 196-200: the two reports, if there is a Match
SaveReports ==
    /\ pc = "save"
    /\ IF all_filtered_lines # <<>>
       THEN /\ txtReport' = save_results_as_text(all_filtered_lines)
            /\ htmlReport' = save_results_as_html(all_filtered_lines, RunHighlight)
       ELSE UNCHANGED <<txtReport, htmlReport>>
    /\ pc' = "done"
    /\ UNCHANGED <<folder, log_files, zi, fi, temp_dir, scratch, created, removed,
                   extracted_logs, errors, all_filtered_lines, matchFile, ownContent,
                   seenContent, raising, filterVars, hlVars>>

Next ==
    \/ Discover
    \/ EnterTry
    \/ ExtractZip
    \/ FilterFile
    \/ Interrupt
    \/ Cleanup
    \/ SaveReports

Spec == Init /\ [][Next]_vars

(***************************************************************************)
(* Properties of the run.                                                  *)
(***************************************************************************)
StartsWith(s, prefix) == Len(prefix) <= Len(s) /\ SubSeq(s, 1, Len(prefix)) = prefix

\* C2: the aggregate Match sequence follows the discovery order of the files
\* and, within one file, strictly ascending line numbers; the text report and
\* the HTML report each list exactly these Matches in exactly this order.
C2_ReportsKeepAggregateOrder ==
    /\ Len(matchFile) = Len(all_filtered_lines)
    /\ \A i \in 1..Len(all_filtered_lines) :
           /\ matchFile[i] \in 1..fi
           /\ all_filtered_lines[i][1] = basename(log_files[matchFile[i]])
    /\ \A i, j \in 1..Len(all_filtered_lines) :
           i < j =>
               /\ matchFile[i] <= matchFile[j]
               /\ (matchFile[i] = matchFile[j]
                       => all_filtered_lines[i][2] < all_filtered_lines[j][2])
    /\ (pc = "done" /\ all_filtered_lines # <<>>) =>
           /\ txtReport.exists /\ htmlReport.exists
           /\ Len(txtReport.lines) = Len(all_filtered_lines)
           /\ Len(htmlReport.lines) = Len(all_filtered_lines)
           /\ \A i \in 1..Len(all_filtered_lines) :
                  LET label == LineLabel(all_filtered_lines[i][1], all_filtered_lines[i][2])
                  IN  /\ txtReport.lines[i]
                           = label \o <<" ">> \o all_filtered_lines[i][3] \o <<"\n">>
                      /\ StartsWith(htmlReport.lines[i], FileInfoOpen \o label)

\* a run over three files with Matches has written both reports
C2_Witness ==
    /\ pc = "done"
    /\ Len(all_filtered_lines) >= 4
    /\ \E i, j \in 1..Len(matchFile) : matchFile[i] = 1 /\ matchFile[j] = 3
    /\ \E i, j \in 1..Len(matchFile) :
           i < j /\ matchFile[i] = matchFile[j]
    /\ Len(txtReport.lines) = Len(all_filtered_lines)

\* a container with exactly two .LOG members that share their base name and lie
\* in different subdirectories
TwoSameBaseMembers(zip) ==
    LET logs == LogMembers(zip.members) IN
    /\ zip.valid
    /\ Len(logs) = 2
    /\ basename(logs[1].name) = basename(logs[2].name)
    /\ dirname(logs[1].name) # <<>>
    /\ dirname(logs[2].name) # <<>>
    /\ dirname(logs[1].name) # dirname(logs[2].name)

\* C3: for a container with two members of one base name ending in .LOG in
\* different subdirectories, plus members that are no .LOG files, extraction
\* into the empty scratch directory returns exactly two paths, both directly in
\* the scratch directory, with distinct names, and extracts no other member.
C3_TwoDistinctFlatPaths ==
    (Len(extracted_logs) >= 1 /\ TwoSameBaseMembers(ZipFiles[1])) =>
        LET returned == extracted_logs[1] IN
        /\ Len(returned) = 2
        /\ \A i \in 1..Len(returned) : dirname(returned[i]) = TempDir
        /\ \A i, j \in 1..Len(returned) : i # j => returned[i] # returned[j]
        /\ (zi = 1 /\ scratch.exists) =>
               \A k \in 1..Len(ZipFiles[1].members) :
                   LET m == ZipFiles[1].members[k] IN
                   ~endswith(upper(m.name), s_LOG) => ~Exists(scratch, m.name)

\* C4: the scratch directory is created at most once and only if there is a
\* container; once created it is removed exactly once before the run ends, on
\* every exit path, so none exists after the run has returned or aborted.
C4_ScratchCreatedOnceRemovedOnce ==
    /\ created <= 1
    /\ removed <= created
    /\ (created = 1 => ZipFiles # <<>>)
    /\ (scratch.exists <=> (created = 1 /\ removed = 0))
    /\ (pc \in {"done", "aborted"} => (~scratch.exists /\ removed = created))

\* a run whose extraction printed an error and that an exception ended while
\* it filtered: the scratch directory was made and was removed
C4_Witness ==
    /\ pc = "aborted"
    /\ created = 1
    /\ removed = 1
    /\ fi >= 1
    /\ \E i \in 1..Len(errors) : errors[i] = 1 /\ ZipFiles[i].valid

HasBadContainer == \E i \in 1..Len(ZipFiles) : ~ZipFiles[i].valid

\* C5: with a container that is no valid archive in the folder, discovery
\* completes, one error is logged for that container, it contributes no file,
\* and every plain log file and every file extracted from the other containers
\* is in the list of files and is filtered.
C5_BadContainerSkipped ==
    HasBadContainer =>
        /\ \A i \in 1..zi :
               ~ZipFiles[i].valid =>
                   /\ errors[i] = 1
                   /\ Len(extracted_logs) >= i
                   /\ extracted_logs[i] = <<>>
        /\ (pc \in {"files", "save", "done"} \/ (pc = "finally" /\ ~raising)) =>
               /\ zi = Len(ZipFiles)
               /\ Len(extracted_logs) = Len(ZipFiles)
               /\ log_files
                    = [i \in 1..Len(PlainLogs) |-> join(FolderPath, PlainLogs[i].name)]
                      \o Concat(extracted_logs)
        /\ (pc \in {"save", "done"} => fi = Len(log_files))

\* a folder with the plain logs, a bad container and then a good one: the run
\* is done and has filtered the plain logs and the good container's file
C5_Witness ==
    /\ pc = "done"
    /\ Len(ZipFiles) = 2
    /\ ~ZipFiles[1].valid
    /\ ZipFiles[2].valid
    /\ errors[1] = 1
    /\ extracted_logs[2] # <<>>
    /\ PlainLogs # <<>>
    /\ fi = Len(PlainLogs) + Len(extracted_logs[2])

\* C9: whatever containers and members share the scratch directory, no file in
\* it is overwritten: the paths returned over the run are pairwise distinct, lie
\* directly in the scratch directory, and each holds the content of its own
\* member when it is filtered.
C9_ReturnedPathsDistinctAndIntact ==
    LET returned == Concat(extracted_logs) IN
    /\ \A i, j \in 1..Len(returned) : i # j => returned[i] # returned[j]
    /\ \A i \in 1..Len(returned) : dirname(returned[i]) = TempDir
    /\ \A k \in 1..Len(seenContent) : seenContent[k] = ownContent[k]

====
